---- MODULE Spec2Model ----
(***************************************************************************)
(* A model of pyscfcli's configuration-to-call translator                  *)
(* (src/pyscfcli/cli.py): the _Task engine that walks an ordered mapping   *)
(* of stages and either performs the library calls (execute mode) or       *)
(* prints the equivalent statements (emit mode, --dry-run).                *)
(*                                                                         *)
(* One behaviour is: the program is invoked on a document with --dry-run,  *)
(* and then invoked again on the same document without it.  Each           *)
(* invocation constructs a fresh _Task, loads the document, and runs it.   *)
(***************************************************************************)
EXTENDS Integers, Sequences, FiniteSets, TLC

VARIABLES
    doc,        \* the parsed input document: a sequence of [key, body]
    invocation, \* 1: the --dry-run invocation, 2: the execute invocation
    config,     \* _Task.config
    dry_run,    \* _Task.dry_run
    _ctx,       \* _Task._ctx, the list of tracked objects
    ctx,        \* the local variable ctx of _Task.run
    pos,        \* position of run's loop: index of the next stage
    pc,         \* "init" | "run" | "done" | "error"
    err,        \* the exception that left run ("" when none)
    out,        \* the statements printed so far
    calls,      \* the library calls performed so far
    heap,       \* the library objects created so far (index = identity)
    output,     \* the result document handed to _make_output (None if none)
    hlog,       \* history: one entry per handler invocation
    prev,       \* history: summary of the finished --dry-run invocation
    python      \* the major version of the interpreter running the program

vars == <<doc, invocation, config, dry_run, _ctx, ctx, pos, pc, err, out,
          calls, heap, output, hlog, prev, python>>

(***************************************************************************)
(* Python values.  Every value is a record with a tag t, so that any two   *)
(* values can be compared.                                                 *)
(***************************************************************************)
None == [t |-> "None"]

Str(s) == [t |-> "str", s |-> s]

\* a number, kept as the text Python prints for it
Num(s) == [t |-> "num", s |-> s]

List(xs) == [t |-> "list", items |-> xs]

\* an ordered mapping: a sequence of [k |-> name, v |-> value], names unique
Dict(items) == [t |-> "dict", items |-> items]

\* a reference to the library object heap[id]
Ref(id) == [t |-> "obj", id |-> id]

KV(k, v) == [k |-> k, v |-> v]

IsDict(v) == v.t = "dict"

IsStr(v) == v.t = "str"

IsNone(v) == v.t = "None"

IsRef(v) == v.t = "obj"

Range(s) == {s[i] : i \in 1..Len(s)}

DictKeys(d) == [i \in 1..Len(d.items) |-> d.items[i].k]

DictHas(d, k) == \E i \in 1..Len(d.items) : d.items[i].k = k

DictGet(d, k) == (CHOOSE e \in Range(d.items) : e.k = k).v

\* d[k] = v: an existing key keeps its position, a new key goes last
DictSet(d, k, v) ==
    IF DictHas(d, k)
    THEN Dict([i \in 1..Len(d.items) |->
                 IF d.items[i].k = k THEN KV(k, v) ELSE d.items[i]])
    ELSE Dict(Append(d.items, KV(k, v)))

(***************************************************************************)
(* Strings.  TLC applies Len, Head, Tail, SubSeq and \o to strings.        *)
(***************************************************************************)
CharAt(s, i) == SubSeq(s, i, i)

Contains(s, ch) == \E i \in 1..Len(s) : CharAt(s, i) = ch

\* the number of occurrences of the character ch in s
Count(s, ch) == Cardinality({i \in 1..Len(s) : CharAt(s, i) = ch})

\* s.split(ch)[0]: the text before the first ch, or all of s
SplitFirst(s, ch) ==
    IF Contains(s, ch)
    THEN LET i == CHOOSE j \in 1..Len(s) :
                     /\ CharAt(s, j) = ch
                     /\ \A l \in 1..(j - 1) : CharAt(s, l) # ch
         IN SubSeq(s, 1, i - 1)
    ELSE s

\* the upper-case letter of each lower-case letter
UpperOf ==
    [a |-> "A", b |-> "B", c |-> "C", d |-> "D", e |-> "E", f |-> "F",
     g |-> "G", h |-> "H", i |-> "I", j |-> "J", k |-> "K", l |-> "L",
     m |-> "M", n |-> "N", o |-> "O", p |-> "P", q |-> "Q", r |-> "R",
     s |-> "S", t |-> "T", u |-> "U", v |-> "V", w |-> "W", x |-> "X",
     y |-> "Y", z |-> "Z"]

UpperChar(c) == IF c \in DOMAIN UpperOf THEN UpperOf[c] ELSE c

RECURSIVE Upper(_)
\* str.upper()
Upper(s) == IF s = "" THEN "" ELSE UpperChar(Head(s)) \o Upper(Tail(s))

\* s[:3]
First3(s) == IF Len(s) <= 3 THEN s ELSE SubSeq(s, 1, 3)

Digits == {"0", "1", "2", "3", "4", "5", "6", "7", "8", "9"}

IsDigit(c) == c \in Digits

RECURSIVE FindDigitRuns(_, _, _)
\* re.findall('\d+', s): the maximal runs of digits of s, left to right.
\* cur is the run being read, acc the runs already closed.
FindDigitRuns(s, cur, acc) ==
    IF s = ""
    THEN IF cur = "" THEN acc ELSE Append(acc, cur)
    ELSE IF IsDigit(Head(s))
         THEN FindDigitRuns(Tail(s), cur \o Head(s), acc)
         ELSE FindDigitRuns(Tail(s), "",
                            IF cur = "" THEN acc ELSE Append(acc, cur))

FindAllDigits(s) == FindDigitRuns(s, "", <<>>)

DigitVal(c) ==
    CASE c = "0" -> 0 [] c = "1" -> 1 [] c = "2" -> 2 [] c = "3" -> 3
      [] c = "4" -> 4 [] c = "5" -> 5 [] c = "6" -> 6 [] c = "7" -> 7
      [] c = "8" -> 8 [] c = "9" -> 9

RECURSIVE ToIntAcc(_, _)
ToIntAcc(s, acc) ==
    IF s = "" THEN acc ELSE ToIntAcc(Tail(s), 10 * acc + DigitVal(Head(s)))

\* int(s) of a string of digits
ToInt(s) == ToIntAcc(s, 0)

\* '%s' % v for a context name: None prints as the text None
Fmt(v) == IF IsNone(v) THEN "None" ELSE v.s

(***************************************************************************)
(* Program constants.                                                      *)
(***************************************************************************)
_PHONY == {"args", "kwargs", "results"}

_SCF_METHODS ==
    {"HF", "RHF", "ROHF", "UHF", "DHF",
     "KS", "RKS", "ROKS", "UKS", "DFT",
     "KHF", "KRHF", "KROHF", "KUHF",
     "KKS", "KRKS", "KORKS", "KUKS", "KDFT"}

\* the modifier names of handle_scf, in their declared order
mf_methods ==
    <<"density_fit", "mix_density_fit", "x2c", "sfx2c", "x2c1e", "sfx2c1e",
      "newton">>

mf_methods_set == Range(mf_methods)

(***************************************************************************)
(* The machine record m threads the mutable state through a handler:       *)
(*   config  _Task.config          _ctx   _Task._ctx                       *)
(*   dry_run _Task.dry_run                                                 *)
(*   out     printed statements    calls  library calls performed          *)
(*   heap    library objects       err    the exception raised, "" if none *)
(*   ret     the value the last step produced                              *)
(*   py      the major version of the interpreter                          *)
(* An exception is sticky: once err is set, every later step is skipped,   *)
(* and what was printed, called or stored before it stays.                 *)
(***************************************************************************)
Failed(m) == m.err # ""

Raise(m, e) == IF Failed(m) THEN m ELSE [m EXCEPT !.err = e]

Return(m, v) == IF Failed(m) THEN m ELSE [m EXCEPT !.ret = v]

\* print(...)
Emit(m, stmt) == IF Failed(m) THEN m ELSE [m EXCEPT !.out = Append(@, stmt)]

RECURSIVE EmitAll(_, _)
EmitAll(m, stmts) ==
    IF Failed(m) \/ stmts = <<>> THEN m ELSE EmitAll(Emit(m, Head(stmts)), Tail(stmts))

\* self._ctx.append(ctx)
Track(m, v) == IF Failed(m) THEN m ELSE [m EXCEPT !._ctx = Append(@, v)]

\* self.config[entry_name]
Entry(cfg, entry_name) ==
    (CHOOSE e \in Range(cfg) : e.key = entry_name).body

EntryIndex(cfg, entry_name) ==
    CHOOSE i \in 1..Len(cfg) : cfg[i].key = entry_name

(***************************************************************************)
(* The library (pyscf, importlib), as far as the engine depends on it.     *)
(* An object is [kind, klass, mol, scf, attrs, ran]: kind is what the      *)
(* engine's isinstance tests see, mol and scf are the object's molecule    *)
(* and mean-field back-reference (None when it has none), attrs the        *)
(* attributes assigned to it.  An object has every method the library      *)
(* names (KindOf); what is not an object has none.                         *)
(***************************************************************************)
Obj(kind, klass, mol, scf, attrs) ==
    [kind |-> kind, klass |-> klass, mol |-> mol, scf |-> scf,
     attrs |-> attrs, ran |-> FALSE]

Deref(m, ref) == m.heap[ref.id]

\* isinstance(ctx, pyscf.gto.Mole): a Cell is a Mole
IsMole(m, v) == IsRef(v) /\ Deref(m, v).kind \in {"Mole", "Cell"}

\* isinstance(ctx, pyscf.scf.hf.SCF)
IsSCF(m, v) == IsRef(v) /\ Deref(m, v).kind = "SCF"

\* isinstance(ctx, pyscf.grad.rhf.GradientsBasics)
IsGradients(m, v) == IsRef(v) /\ Deref(m, v).kind = "Grad"

\* hasattr(ctx, 'cell'): an object built on a Cell
HasCell(m, v) ==
    /\ IsRef(v)
    /\ ~IsMole(m, v)
    /\ IsRef(Deref(m, v).mol)
    /\ Deref(m, Deref(m, v).mol).kind = "Cell"

\* the kind of object the method named klass constructs.  The library's
\* names are case-sensitive: it has Gradients, nuc_grad_method, ddCOSMO and
\* ddPCM, and no GRADIENTS or DDCOSMO; a name it does not have is "none"
KindOf(klass) ==
    CASE klass \in _SCF_METHODS -> "SCF"
      [] klass \in {"ddCOSMO", "ddPCM"} -> "SCF"
      [] klass \in mf_methods_set -> "SCF"
      [] klass \in {"CASSCF", "CASCI"} -> "MC"
      [] klass \in {"Gradients", "nuc_grad_method"} -> "Grad"
      [] klass = "optimizer" -> "Opt"
      [] klass \in {"CCSD", "MP2"} -> "Post"
      [] OTHER -> "none"

\* the attributes an object of the kind has before any is assigned: a
\* Kohn-Sham object carries an integration grid, itself an object
HasGrids(klass) == klass \in {"KS", "RKS", "ROKS", "UKS", "DFT",
                              "KKS", "KRKS", "KORKS", "KUKS", "KDFT"}

Alloc(m, obj) ==
    [m EXCEPT !.heap = Append(@, obj), !.ret = Ref(Len(m.heap) + 1)]

LogCall(m, recv, method, args, kwargs, res) ==
    [m EXCEPT !.calls = Append(@, [op |-> "call", recv |-> recv,
                                   method |-> method, args |-> args,
                                   kwargs |-> kwargs, res |-> res])]

\* the keyword parameters of build: those of a Mole, of a Cell, and of any
\* other object; build takes no other keyword
BuildParameters(kind) ==
    CASE kind = "Mole" ->
           {"atom", "basis", "unit", "charge", "spin", "symmetry", "verbose",
            "output", "max_memory", "ecp", "nucmod", "cart"}
      [] kind = "Cell" ->
           {"atom", "basis", "unit", "charge", "spin", "symmetry", "verbose",
            "output", "max_memory", "ecp", "nucmod", "cart",
            "a", "mesh", "ke_cutoff", "precision", "dimension", "rcut"}
      [] OTHER -> {"mol"}

\* every keyword of kwargs is a parameter of the build of the kind
BuildAccepts(kind, kwargs) ==
    \A i \in 1..Len(kwargs.items) :
        kwargs.items[i].k \in BuildParameters(kind)

\* pyscf.M(**kwargs): a Cell when a lattice is given, else a Mole; the
\* keywords go to the build of the new object, which raises on one it does
\* not have
LibM(m, kwargs) ==
    IF Failed(m) THEN m
    ELSE IF ~BuildAccepts(IF DictHas(kwargs, "a") THEN "Cell" ELSE "Mole",
                          kwargs)
    THEN Raise(LogCall(m, Str("pyscf"), "M", <<>>, kwargs, None),
               "TypeError: keyword")
    ELSE Alloc(LogCall(m, Str("pyscf"), "M", <<>>, kwargs,
                       Ref(Len(m.heap) + 1)),
               Obj(IF DictHas(kwargs, "a") THEN "Cell" ELSE "Mole",
                   "M", None, None, kwargs))

RECURSIVE DictUpdate(_, _)
\* d.update(items)
DictUpdate(d, items) ==
    IF items = <<>> THEN d
    ELSE DictUpdate(DictSet(d, Head(items).k, Head(items).v), Tail(items))

\* ctx.build(**kwargs): rebuilds the object in place
LibBuild(m, recv, kwargs) ==
    IF Failed(m) THEN m
    ELSE IF ~IsRef(recv) THEN Raise(m, "AttributeError")
    ELSE IF ~BuildAccepts(Deref(m, recv).kind, kwargs)
    THEN Raise(LogCall(m, recv, "build", <<>>, kwargs, None),
               "TypeError: keyword")
    ELSE LET m1 == [m EXCEPT !.heap[recv.id].attrs =
                                  DictUpdate(@, kwargs.items)]
         IN Return(LogCall(m1, recv, "build", <<>>, kwargs, recv), recv)

\* getattr(recv, klass)(*args, **kwargs): a new object built on recv.
\* A post-method object built straight on a molecule gets a mean-field
\* object the library makes for it.  A name the library does not have
\* raises AttributeError.
LibNew(m, recv, klass, args, kwargs) ==
    IF Failed(m) THEN m
    ELSE IF ~IsRef(recv) \/ KindOf(klass) = "none"
    THEN Raise(m, "AttributeError")
    ELSE LET r == Deref(m, recv)
             kind == KindOf(klass)
             onMole == r.kind \in {"Mole", "Cell"}
             mol == IF onMole THEN recv ELSE r.mol
             implicit == onMole /\ kind # "SCF"
             m0 == IF implicit
                   THEN Alloc(m, Obj("SCF", "HF", recv, None, Dict(<<>>)))
                   ELSE m
             scf == IF implicit THEN m0.ret
                    ELSE IF r.kind = "SCF" THEN recv ELSE r.scf
             mg == IF HasGrids(klass)
                   THEN Alloc(m0, Obj("Grids", "Grids", None, None, Dict(<<>>)))
                   ELSE m0
             attrs == IF klass \in mf_methods_set THEN r.attrs
                      ELSE IF HasGrids(klass)
                           THEN Dict(<<KV("grids", mg.ret)>>)
                           ELSE Dict(<<>>)
             m1 == Alloc(mg, Obj(kind, klass, mol,
                                 IF kind = "SCF" THEN None ELSE scf, attrs))
         IN LogCall(m1, recv, klass, args, kwargs, m1.ret)

\* recv.run(): returns recv; a geometry optimizer ends with a new molecule
LibRun(m, recv) ==
    IF Failed(m) THEN m
    ELSE IF ~IsRef(recv) THEN Raise(m, "AttributeError")
    ELSE LET r == Deref(m, recv)
             m0 == IF r.kind = "Opt"
                   THEN Alloc(m, Obj(IF IsRef(r.mol)
                                     THEN Deref(m, r.mol).kind ELSE "Mole",
                                     "optimized", None, None, Dict(<<>>)))
                   ELSE m
             m1 == [m0 EXCEPT !.heap[recv.id].ran = TRUE,
                              !.heap[recv.id].mol =
                                  IF r.kind = "Opt" THEN m0.ret ELSE @]
         IN Return(LogCall(m1, recv, "run", <<>>, Dict(<<>>), recv), recv)

\* recv.mol
LibMol(m, recv) ==
    IF Failed(m) THEN m
    ELSE IF IsRef(recv) /\ ~IsMole(m, recv) /\ IsRef(Deref(m, recv).mol)
         THEN Return(m, Deref(m, recv).mol)
         ELSE Raise(m, "AttributeError: mol")

\* recv._scf: post-method and multi-configuration objects have one
LibScf(m, recv) ==
    IF Failed(m) THEN m
    ELSE IF IsRef(recv) /\ Deref(m, recv).kind \in {"Post", "MC"}
         THEN Return(m, Deref(m, recv).scf)
         ELSE Raise(m, "AttributeError: _scf")

\* importlib.import_module(name)
LibImport(m, name) ==
    IF Failed(m) THEN m
    ELSE [m EXCEPT !.calls = Append(@, [op |-> "import", mod |-> name])]

\* setattr(recv, token, val)
LibSetattr(m, recv, token, val) ==
    IF Failed(m) THEN m
    ELSE IF ~IsRef(recv) THEN Raise(m, "AttributeError")
    ELSE [m EXCEPT !.heap[recv.id].attrs = DictSet(@, token, val),
                   !.calls = Append(@, [op |-> "setattr", recv |-> recv,
                                        name |-> token, val |-> val])]

(***************************************************************************)
(* _assignment_statements and _update_attributes.                          *)
(***************************************************************************)
\* one rendered assignment: prefix, token, and the value with the way it is
\* quoted ("block": triple-quoted, "quoted": a string literal, "plain")
Assignment(prefix, token, val) ==
    [s |-> "assign", prefix |-> prefix, token |-> token, val |-> val,
     style |-> IF IsStr(val)
               THEN IF Contains(val.s, "\n") THEN "block" ELSE "quoted"
               ELSE "plain"]

\* the statements list of _assignment_statements for a mapping
AssignmentList(conf, prefix) ==
    LET keep == SelectSeq(conf.items, LAMBDA e : e.k \notin _PHONY)
    IN [i \in 1..Len(keep) |-> Assignment(prefix, keep[i].k, keep[i].v)]

\* _assignment_statements(config, ctx): ret is the list of statements;
\* config.items() of what is no mapping raises
_assignment_statements(m, conf, c) ==
    IF Failed(m) THEN m
    ELSE IF ~IsDict(conf) THEN Raise(m, "AttributeError")
    ELSE Return(m, List(AssignmentList(conf,
                            IF IsNone(c) THEN "" ELSE c.s \o ".")))

\* getattr(ctx, token, None)
GetattrOrNone(m, recv, token) ==
    IF IsRef(recv) /\ DictHas(Deref(m, recv).attrs, token)
    THEN DictGet(Deref(m, recv).attrs, token)
    ELSE None

RECURSIVE UpdateItems_noMappingTest(_, _, _)
\* the loop recursing into whatever the attribute holds, a mapping too
UpdateItems_noMappingTest(m, recv, items) ==
    IF Failed(m) \/ items = <<>> THEN m
    ELSE LET token == Head(items).k
             val == Head(items).v
             attr == GetattrOrNone(m, recv, token)
             m1 == IF token \in _PHONY THEN m
                   ELSE IF IsDict(val)
                        THEN IF IsNone(attr)
                             THEN LibSetattr(m, recv, token, val)
                             ELSE UpdateItems_noMappingTest(m, attr, val.items)
                        ELSE LibSetattr(m, recv, token, val)
         IN UpdateItems_noMappingTest(m1, recv, Tail(items))

RECURSIVE UpdateItems_alwaysSets(_, _, _)
\* the loop setting every value directly, never recursing
UpdateItems_alwaysSets(m, recv, items) ==
    IF Failed(m) \/ items = <<>> THEN m
    ELSE UpdateItems_alwaysSets(
             IF Head(items).k \in _PHONY THEN m
             ELSE LibSetattr(m, recv, Head(items).k, Head(items).v),
             recv, Tail(items))

RECURSIVE UpdateItems(_, _, _)
\* the loop of _update_attributes over config.items()
UpdateItems(m, recv, items) ==
    IF Failed(m) \/ items = <<>> THEN m
    ELSE LET token == Head(items).k
             val == Head(items).v
             attr == GetattrOrNone(m, recv, token)
             m1 == IF token \in _PHONY THEN m
                   ELSE IF IsDict(val)
                        THEN IF IsNone(attr) \/ IsDict(attr)
                             THEN LibSetattr(m, recv, token, val)
                             ELSE UpdateItems(m, attr, val.items)
                        ELSE LibSetattr(m, recv, token, val)
         IN UpdateItems(m1, recv, Tail(items))

\* _update_attributes(ctx, config): returns ctx
_update_attributes(m, recv, conf) ==
    IF Failed(m) THEN m
    ELSE IF ~IsDict(conf) THEN Return(m, recv)
    ELSE Return(UpdateItems(m, recv, conf.items), recv)

(***************************************************************************)
(* extract_results.                                                        *)
(***************************************************************************)
RECURSIVE SplitAll(_, _)
\* s.split(ch)
SplitAll(s, ch) ==
    IF Contains(s, ch)
    THEN <<SplitFirst(s, ch)>>
         \o SplitAll(SubSeq(s, Len(SplitFirst(s, ch)) + 2, Len(s)), ch)
    ELSE <<s>>

\* sub in s, for strings
HasSubstring(s, sub) ==
    \E i \in 1..(Len(s) - Len(sub) + 1) : SubSeq(s, i, i + Len(sub) - 1) = sub

\* 'results' in config
HasResults(conf) ==
    CASE IsDict(conf) -> DictHas(conf, "results")
      [] IsStr(conf) -> HasSubstring(conf.s, "results")
      [] conf.t = "list" -> Str("results") \in Range(conf.items)
      [] OTHER -> FALSE

\* the attributes the library gives an object of each kind
LibAttrs(kind) ==
    CASE kind \in {"Mole", "Cell"} -> {"atom_coords", "nao", "natm"}
      [] kind = "SCF" -> {"e_tot", "mo_energy", "mo_coeff", "converged"}
      [] kind = "Post" -> {"e_tot", "e_corr", "t1"}
      [] kind = "MC" -> {"e_tot", "e_cas", "ci"}
      [] kind = "Grad" -> {"de"}
      [] kind = "Opt" -> {"converged"}
      [] OTHER -> {}

\* the attributes that are methods
LibCallable == {"atom_coords"}

\* the attributes (and method results) that are numeric arrays
LibArrays == {"mo_energy", "mo_coeff", "t1", "ci", "de", "atom_coords"}

\* the value an attribute lookup or a call yields, as a term
Attr(of, name) == [t |-> "attr", of |-> of, name |-> name]

Called(f) == [t |-> "called", f |-> f]

ToList(v) == [t |-> "tolist", of |-> v]

\* the value of the expression cur.key for a segment key such as
\* mo_energy[0] or atom_coords()
Applied(cur, key) == [t |-> "applied", of |-> cur, expr |-> key]

\* getattr(cur, key)
LibGetattr(m, cur, key) ==
    IF Failed(m) THEN m
    ELSE IF IsRef(cur)
    THEN LET r == Deref(m, cur)
         IN IF DictHas(r.attrs, key) THEN Return(m, DictGet(r.attrs, key))
            ELSE IF key = "mol" /\ IsRef(r.mol) /\ ~IsMole(m, cur)
                 THEN Return(m, r.mol)
            ELSE IF key = "_scf" /\ r.kind \in {"Post", "MC"}
                 THEN Return(m, r.scf)
            ELSE IF key \in LibAttrs(r.kind) THEN Return(m, Attr(cur, key))
            ELSE Raise(m, "AttributeError")
    ELSE IF cur.t \in {"attr", "called", "applied"}
    THEN Return(m, Attr(cur, key))
    ELSE Raise(m, "AttributeError")

\* the name a segment such as mo_energy[0] or kernel() starts with
SegmentName(key) == SplitFirst(SplitFirst(key, "["), "(")

\* the interpreters the package declares (setup.py classifiers), by major
\* version
Interpreters == {2, 3}

RECURSIVE ResolveSegments(_, _, _)
\* the loop over token.split('.'): ret is cur_ctx after the last segment.
\* exec() evaluates an indexing or call segment against cur_ctx.  Under
\* Python 2 the exec statement assigns the function's local cur_ctx; under
\* Python 3 an assignment made inside exec() does not reach the local
\* variable and cur_ctx keeps its value.
ResolveSegments(m, cur, keys) ==
    IF Failed(m) THEN m
    ELSE IF keys = <<>> THEN Return(m, cur)
    ELSE LET key == Head(keys)
             m1 == LibGetattr(m, cur, IF Contains(key, "[") \/ Contains(key, "(")
                                      THEN SegmentName(key) ELSE key)
         IN IF Contains(key, "[") \/ Contains(key, "(")
            THEN ResolveSegments(Return(m1, cur),
                                 IF m.py = 2 THEN Applied(cur, key) ELSE cur,
                                 Tail(keys))
            ELSE ResolveSegments(m1, m1.ret, Tail(keys))

IsCallable(v) == v.t = "attr" /\ v.name \in LibCallable

IsArray(v) ==
    \/ v.t = "attr" /\ v.name \in LibArrays /\ v.name \notin LibCallable
    \/ v.t = "called" /\ v.f.name \in LibArrays
    \/ v.t = "applied" /\ SegmentName(v.expr) \in LibArrays

\* what one requested path stores: the value reached, called if callable,
\* an array made a plain list
ResultValue(cur) ==
    LET val == IF IsCallable(cur) THEN Called(cur) ELSE cur
    IN IF IsArray(val) THEN ToList(val) ELSE val

RECURSIVE ResolveTokens(_, _, _, _)
\* the loop over tokens in execute mode: ret is the results mapping
ResolveTokens(m, c, tokens, results) ==
    IF Failed(m) THEN m
    ELSE IF tokens = <<>> THEN Return(m, results)
    ELSE IF ~IsStr(Head(tokens)) THEN Raise(m, "AttributeError")
    ELSE LET token == Head(tokens).s
             m1 == ResolveSegments(m, c, SplitAll(token, "."))
         IN IF Failed(m1) THEN m1
            ELSE ResolveTokens(m1, c, Tail(tokens),
                               DictSet(results, token, ResultValue(m1.ret)))

\* the tokens of a results request: a string is a one-element list
RequestTokens(req) ==
    CASE IsStr(req) -> <<req>>
      [] req.t = "list" -> req.items
      [] IsDict(req) -> [i \in 1..Len(req.items) |-> Str(req.items[i].k)]

\* config['results'] = results, the mapping left in ret; the step returns
\* nothing, so ret is set back to what it was
StoreResults(m, entry_name, ret) ==
    IF Failed(m) THEN m
    ELSE [m EXCEPT !.config[EntryIndex(m.config, entry_name)].body =
                       DictSet(@, "results", m.ret),
                   !.ret = ret]

extract_results(m, entry_name, c) ==
    LET conf == Entry(m.config, entry_name)
    IN IF Failed(m) THEN m
       ELSE IF IsNone(conf) \/ ~HasResults(conf) THEN m
       ELSE IF ~IsDict(conf) THEN Raise(m, "TypeError")
       ELSE IF DictGet(conf, "results").t \in {"None", "num"}
            THEN Raise(m, "TypeError")
       ELSE LET tokens == RequestTokens(DictGet(conf, "results"))
            IN IF m.dry_run
               THEN EmitAll(
                      Emit(m, [s |-> "results_init", entry |-> entry_name]),
                      [i \in 1..Len(tokens) |->
                         [s |-> "result", entry |-> entry_name,
                          token |-> tokens[i], recv |-> Fmt(c)]])
               ELSE StoreResults(ResolveTokens(m, c, tokens, Dict(<<>>)),
                                 entry_name, m.ret)

(***************************************************************************)
(* Printed statements.  A statement is kept as the parts its format        *)
(* string is filled with:                                                  *)
(*   "new"    target = recv.method(pargs, kwargs)                          *)
(*   "build"  recv.build(kwargs)                                           *)
(*   "run"    target = recv.run()                                          *)
(*   "molof"  target = recv.mol                                            *)
(*   "blank"  an empty line        "text"  a fixed line                    *)
(***************************************************************************)
NewStmt(target, recv, method, pargs, kwargs) ==
    [s |-> "new", target |-> target, recv |-> recv, method |-> method,
     pargs |-> pargs, kwargs |-> kwargs]

RunStmt(target) == [s |-> "run", target |-> target, recv |-> target]

\* print('\n'.join(statements)): an empty list prints an empty line
EmitJoined(m, stmts) ==
    IF Failed(m) THEN m
    ELSE IF stmts = <<>> THEN Emit(m, [s |-> "blank"]) ELSE EmitAll(m, stmts)

\* an int passed to the library
IntV(n) == [t |-> "int", n |-> n]

(***************************************************************************)
(* Steps on the value the step before left in ret.                         *)
(***************************************************************************)
\* print('\n'.join(statements)) of the statements in ret
EmitRetJoined(m) == IF Failed(m) THEN m ELSE EmitJoined(m, m.ret.items)

\* if statements: print(statements)
EmitRetIfAny(m) == IF Failed(m) THEN m ELSE EmitAll(m, m.ret.items)

\* print('%s = %s.%s(%s)') with the statements in ret as the arguments
EmitNewWithRet(m, target, recv, method) ==
    IF Failed(m) THEN m
    ELSE Emit(m, NewStmt(target, recv, method, <<>>, m.ret.items))

\* print('%s.build(%s)') with the statements in ret as the arguments
EmitBuildWithRet(m, recv) ==
    IF Failed(m) THEN m
    ELSE Emit(m, [s |-> "build", recv |-> recv, kwargs |-> m.ret.items])

\* print('%s = %s.%s(...)') with the context in ret as the receiver
EmitNewOnRet(m, target, method, pargs) ==
    IF Failed(m) THEN m
    ELSE Emit(m, NewStmt(target, Fmt(m.ret), method, pargs, <<>>))

NewOnRet(m, klass, args, kwargs) ==
    IF Failed(m) THEN m ELSE LibNew(m, m.ret, klass, args, kwargs)

UpdateRet(m, conf) ==
    IF Failed(m) THEN m ELSE _update_attributes(m, m.ret, conf)

RunRet(m) == IF Failed(m) THEN m ELSE LibRun(m, m.ret)

\* MolOfRet leaving the optimizer as the context
MolOfRet_keepsOptimizer(m) == m

MolOfRet(m) == IF Failed(m) THEN m ELSE LibMol(m, m.ret)

ExtractRet(m, entry_name) ==
    IF Failed(m) THEN m ELSE extract_results(m, entry_name, m.ret)

\* a handler that returns without self._ctx.append(ctx)
TrackRet_noAppend(m) == m

TrackRet(m) == IF Failed(m) THEN m ELSE Track(m, m.ret)

(***************************************************************************)
(* The handlers of _Task.  Each takes the machine record and the stage     *)
(* key, all but handle_version and handle_import also the running context, *)
(* and leaves the context it returns in ret.                               *)
(***************************************************************************)
\* the header without the line that assigns results
make_header_noResults(m) ==
    IF m.dry_run
    THEN EmitAll(m, <<[s |-> "text", text |-> "import numpy as np"],
                      [s |-> "text", text |-> "import pyscf"]>>)
    ELSE m

make_header(m) ==
    IF m.dry_run
    THEN EmitAll(m, <<[s |-> "text", text |-> "import numpy as np"],
                      [s |-> "text", text |-> "import pyscf"],
                      [s |-> "text", text |-> "results = {}"]>>)
    ELSE m

\* handle_version(self, entry_name): pass
handle_version(m, entry_name) == Return(m, None)

RECURSIVE ImportAll(_, _)
\* the loop of handle_import in execute mode: the module is imported, its
\* root package is imported, and set() is called with three arguments
ImportAll(m, names) ==
    IF Failed(m) \/ names = <<>> THEN m
    ELSE ImportAll(Raise(LibImport(LibImport(m, Head(names).s),
                                   SplitFirst(Head(names).s, ".")),
                         "TypeError"),
                   Tail(names))

\* handle_import(self, entry_name)
handle_import(m, entry_name) ==
    LET conf == Entry(m.config, entry_name)
        names == IF IsStr(conf) THEN <<conf>> ELSE RequestTokens(conf)
    IN IF ~IsStr(conf) /\ conf.t \in {"None", "num"} THEN Raise(m, "TypeError")
       ELSE IF m.dry_run
       THEN Return(EmitAll(m, [i \in 1..Len(names) |->
                                 [s |-> "import", mod |-> names[i].s]]),
                   None)
       ELSE Return(ImportAll(m, names), None)

_basic_handler(m, entry_name, c, instance_name) ==
    LET conf == Entry(m.config, entry_name)
        klass == SplitFirst(entry_name, "-")
        iname == IF IsNone(instance_name) THEN klass \o "_instance"
                 ELSE instance_name.s
    IN TrackRet(ExtractRet(
         IF m.dry_run
         THEN Return(Emit(EmitRetIfAny(_assignment_statements(
                        Emit(m, NewStmt(iname, Fmt(c), klass, <<>>, <<>>)),
                        conf, Str(iname))),
                      RunStmt(iname)),
                     Str(iname))
         ELSE RunRet(UpdateRet(LibNew(m, c, klass, <<>>, Dict(<<>>)), conf)),
         entry_name))

\* 'verbose' in config
HasVerbose(conf) ==
    CASE IsDict(conf) -> DictHas(conf, "verbose")
      [] IsStr(conf) -> HasSubstring(conf.s, "verbose")
      [] conf.t = "list" -> Str("verbose") \in Range(conf.items)
      [] OTHER -> FALSE

\* handle_mole_cell making a new object also when there is a context
handle_mole_cell_alwaysFresh(m, entry_name, c) ==
    LET conf == Entry(m.config, entry_name)
        klass == SplitFirst(entry_name, "-")
        name == IF klass = "Mole" THEN "mol" ELSE "cell"
    IN ExtractRet(TrackRet(
         IF m.dry_run
         THEN Return(EmitNewWithRet(_assignment_statements(m, conf, None),
                                    name, "pyscf", "M"),
                     Str(name))
         ELSE IF ~IsDict(conf) THEN Raise(m, "TypeError")
              ELSE IF HasVerbose(conf)
                   THEN LibM(m, conf)
                   ELSE LibM(m, DictSet(conf, "verbose", IntV(2)))),
         entry_name)

\* handle_mole_cell building the object whatever the mode
handle_mole_cell_alwaysBuilds(m, entry_name, c) ==
    LET conf == Entry(m.config, entry_name)
    IN TrackRet(
         IF ~IsDict(conf) THEN Raise(m, "TypeError")
         ELSE IF IsNone(c)
         THEN IF HasVerbose(conf)
              THEN LibM(m, conf)
              ELSE LibM(m, DictSet(conf, "verbose", IntV(2)))
         ELSE LibBuild(m, c, conf))

handle_mole_cell(m, entry_name, c) ==
    LET conf == Entry(m.config, entry_name)
        klass == SplitFirst(entry_name, "-")
        name == IF klass = "Mole" THEN "mol" ELSE "cell"
    IN ExtractRet(TrackRet(
         IF m.dry_run
         THEN IF IsNone(c)
              THEN Return(EmitNewWithRet(
                            _assignment_statements(m, conf, None),
                            name, "pyscf", "M"),
                          Str(name))
              ELSE Return(EmitBuildWithRet(
                            _assignment_statements(m, conf, None), Fmt(c)),
                          c)
         ELSE IF ~IsDict(conf) THEN Raise(m, "TypeError")
              ELSE IF IsNone(c)
              THEN IF HasVerbose(conf)
                   THEN LibM(m, conf)
                   ELSE LibM(m, DictSet(conf, "verbose", IntV(2)))
              ELSE LibBuild(m, c, conf)),
         entry_name)

RECURSIVE EmitModifiers(_, _)
\* the loop over config_pass2 in emit mode
EmitModifiers(m, items) ==
    IF Failed(m) \/ items = <<>> THEN m
    ELSE EmitModifiers(
           EmitNewWithRet(_assignment_statements(m, Head(items).v, None),
                          "mf", "mf", Head(items).k),
           Tail(items))

\* ctx = getattr(ctx, token)(**val)
CallModifier(m, item) ==
    IF Failed(m) THEN m
    ELSE IF ~IsDict(item.v) THEN Raise(m, "TypeError")
    ELSE LibNew(m, m.ret, item.k, <<>>, item.v)

RECURSIVE CallModifiers(_, _)
\* the loop over config_pass2 in execute mode, on the context in ret
CallModifiers(m, items) ==
    IF Failed(m) \/ items = <<>> THEN m
    ELSE CallModifiers(CallModifier(m, Head(items)), Tail(items))

\* config_pass1: the items whose key is no modifier name
ConfigPass1(conf) ==
    Dict(SelectSeq(conf.items, LAMBDA e : e.k \notin mf_methods_set))

\* config_pass2 in the order of the body's keys
ConfigPass2_bodyOrder(conf) ==
    SelectSeq(conf.items, LAMBDA e : e.k \in mf_methods_set)

\* config_pass2: the modifier items, in the order of mf_methods
ConfigPass2(conf) ==
    LET present == SelectSeq(mf_methods, LAMBDA k : DictHas(conf, k))
    IN [i \in 1..Len(present) |-> KV(present[i], DictGet(conf, present[i]))]

\* the object the mean-field method is looked up on in execute mode
ScfReceiver(m, c) ==
    IF IsMole(m, c) THEN Return(m, c)
    ELSE IF HasCell(m, c) THEN Return(m, Deref(m, c).mol)
    ELSE LibMol(m, c)

handle_scf(m, entry_name, c) ==
    LET conf == Entry(m.config, entry_name)
        klass == SplitFirst(entry_name, "-")
    IN IF ~IsDict(conf) THEN Raise(m, "AttributeError")
       ELSE TrackRet(ExtractRet(
              IF m.dry_run
              THEN Return(
                     Emit(EmitModifiers(
                            EmitRetJoined(_assignment_statements(
                              Emit(m, NewStmt("mf",
                                       IF c \in {Str("mol"), Str("cell")}
                                       THEN Fmt(c) ELSE Fmt(c) \o ".mol",
                                       klass, <<>>, <<>>)),
                              ConfigPass1(conf), Str("mf"))),
                            ConfigPass2(conf)),
                          RunStmt("mf")),
                     Str("mf"))
              ELSE RunRet(CallModifiers(
                     UpdateRet(NewOnRet(ScfReceiver(m, c), klass, <<>>,
                                        Dict(<<>>)),
                               ConfigPass1(conf)),
                     ConfigPass2(conf))),
              entry_name))

BasicOnRet(m, entry_name, instance_name) ==
    IF Failed(m) THEN m
    ELSE _basic_handler(m, entry_name, m.ret, instance_name)

handle_solvent_model(m, entry_name, c) ==
    LET klass == SplitFirst(entry_name, "-")
    IN IF klass \notin {"ddCOSMO", "ddPCM"}
       THEN Raise(m, "RuntimeError: Invalid solvent model")
       ELSE IF (m.dry_run /\ c # Str("mf")) \/ (~m.dry_run /\ ~IsSCF(m, c))
       THEN Raise(m, "RuntimeError: Solvent model can be applied to SCF object only")
       ELSE _basic_handler(m, entry_name, c, Str("mf"))

\* the context a multi-configuration or post-method object is built on:
\* the running context, or its _scf
EffectiveContext(m, c) ==
    IF m.dry_run
    THEN IF c \notin {Str("mol"), Str("mf")}
         THEN IF IsNone(c) THEN Raise(m, "TypeError")
              ELSE Return(m, Str(c.s \o "._scf"))
         ELSE Return(m, c)
    ELSE IF ~(IsMole(m, c) \/ IsSCF(m, c))
         THEN LibScf(m, c)
         ELSE Return(m, c)

\* McscfCall passing the two numbers in the order they are written
McscfCall_keyOrder(m, mc_method, ne, no) ==
    IF m.dry_run
    THEN EmitNewOnRet(m, "mc", mc_method, <<ne, no>>)
    ELSE NewOnRet(m, mc_method, <<IntV(ToInt(ne)), IntV(ToInt(no))>>,
                  Dict(<<>>))

\* the call of handle_mcscf: mc_method(no, ne) on the effective context
McscfCall(m, mc_method, ne, no) ==
    IF m.dry_run
    THEN EmitNewOnRet(m, "mc", mc_method, <<no, ne>>)
    ELSE NewOnRet(m, mc_method, <<IntV(ToInt(no)), IntV(ToInt(ne))>>,
                  Dict(<<>>))

handle_mcscf(m, entry_name, c) ==
    LET conf == Entry(m.config, entry_name)
        klass == SplitFirst(entry_name, "-")
        nums == FindAllDigits(klass)
    IN IF Count(klass, "(") # 1 \/ Len(nums) # 2 THEN Raise(m, "ValueError")
       ELSE TrackRet(ExtractRet(
              IF m.dry_run
              THEN Return(
                     Emit(EmitRetJoined(_assignment_statements(
                            McscfCall(EffectiveContext(m, c),
                                      SplitFirst(klass, "("), nums[1], nums[2]),
                            conf, Str("mc"))),
                          RunStmt("mc")),
                     Str("mc"))
              ELSE RunRet(UpdateRet(
                     McscfCall(EffectiveContext(m, c),
                               SplitFirst(klass, "("), nums[1], nums[2]),
                     conf)),
              entry_name))

handle_postscf(m, entry_name, c) ==
    BasicOnRet(EffectiveContext(m, c), entry_name, Str("postscf"))

\* the optimizer of handle_geomopt in execute mode
Optimizer(m, c) ==
    IF IsGradients(m, c)
    THEN LibNew(m, c, "optimizer", <<>>, Dict(<<>>))
    ELSE NewOnRet(LibNew(m, c, "Gradients", <<>>, Dict(<<>>)),
                  "optimizer", <<>>, Dict(<<>>))

handle_geomopt(m, entry_name, c) ==
    LET conf == Entry(m.config, entry_name)
    IN IF m.dry_run
       THEN IF IsNone(c) THEN Raise(m, "TypeError")
            ELSE TrackRet(Return(
                   Emit(extract_results(
                          Emit(EmitRetJoined(_assignment_statements(
                                 Emit(m, NewStmt(c.s \o "_opt", c.s,
                                                 "Gradients().optimizer",
                                                 <<>>, <<>>)),
                                 conf, Str(c.s \o "_opt"))),
                               RunStmt(c.s \o "_opt")),
                          entry_name, Str(c.s \o "_opt")),
                        [s |-> "molof", target |-> "mol",
                         recv |-> c.s \o "_opt"]),
                   Str("mol")))
       ELSE TrackRet(MolOfRet(ExtractRet(
              RunRet(UpdateRet(Optimizer(m, c), conf)), entry_name)))

handle_gradients(m, entry_name, c) == _basic_handler(m, entry_name, c, None)

\* config.items is read without being called: iterating the method object
\* raises for a mapping, and what is no mapping has no attribute items
handle_custom_statements(m, entry_name, c) ==
    LET conf == Entry(m.config, entry_name)
    IN IF IsDict(conf) THEN Raise(m, "TypeError")
       ELSE Raise(m, "AttributeError")

(***************************************************************************)
(* _Task.run: the dispatch of one stage.                                   *)
(***************************************************************************)
\* the handlers table of run: key -> handler
handlers ==
    [VERSION |-> "handle_version", IMPORT |-> "handle_import",
     MOLE |-> "handle_mole_cell", CELL |-> "handle_mole_cell",
     DDCOSMO |-> "handle_solvent_model", DDPCM |-> "handle_solvent_model",
     SOLVENT |-> "handle_solvent_model", GRADIENTS |-> "handle_gradients",
     GEOMOPT |-> "handle_geomopt"]

\* Dispatch with the '.' test moved before the CAS test
Dispatch_dotBeforeCas(token) ==
    LET klass == SplitFirst(token, "-")
    IN IF Upper(klass) \in DOMAIN handlers
       THEN IF klass \in DOMAIN handlers THEN handlers[klass] ELSE "KeyError"
       ELSE IF klass \in _SCF_METHODS THEN "handle_scf"
       ELSE IF Contains(klass, ".") THEN "handle_custom_statements"
       ELSE IF Upper(First3(klass)) = "CAS" THEN "handle_mcscf"
       ELSE "handle_postscf"

\* the if/elif chain of run's loop: the handler the stage key selects.
\* handlers[klass] raises KeyError when klass is no key of the table.
Dispatch(token) ==
    LET klass == SplitFirst(token, "-")
    IN IF Upper(klass) \in DOMAIN handlers
       THEN IF klass \in DOMAIN handlers THEN handlers[klass] ELSE "KeyError"
       ELSE IF klass \in _SCF_METHODS THEN "handle_scf"
       ELSE IF Upper(First3(klass)) = "CAS" THEN "handle_mcscf"
       ELSE IF Contains(klass, ".") THEN "handle_custom_statements"
       ELSE "handle_postscf"

\* the handlers whose only parameter is entry_name
OneParameter == {"handle_version", "handle_import"}

\* handlers[klass](token, ctx) and self.handle_x(token, ctx): run passes two
\* arguments; a handler that takes one raises TypeError on the call
Invoke(h, m, token, c) ==
    CASE h \in OneParameter -> Raise(m, "TypeError: arguments")
      [] h = "handle_mole_cell" -> handle_mole_cell(m, token, c)
      [] h = "handle_solvent_model" -> handle_solvent_model(m, token, c)
      [] h = "handle_gradients" -> handle_gradients(m, token, c)
      [] h = "handle_geomopt" -> handle_geomopt(m, token, c)
      [] h = "handle_scf" -> handle_scf(m, token, c)
      [] h = "handle_mcscf" -> handle_mcscf(m, token, c)
      [] h = "handle_custom_statements" ->
             handle_custom_statements(m, token, c)
      [] h = "handle_postscf" -> handle_postscf(m, token, c)

\* one iteration of run's loop, on the machine record
RunStage(m, token, c) ==
    IF Dispatch(token) = "KeyError" THEN Raise(m, "KeyError")
    ELSE Invoke(Dispatch(token), m, token, c)

(***************************************************************************)
(* The input documents.                                                    *)
(***************************************************************************)
\* the largest number of stages of a document
MaxStages == 3

B_mole == Dict(<<KV("atom", Str("H 0 0 0\nH 0 0 1")), KV("basis", Str("sto-3g"))>>)

B_mole_results ==
    Dict(<<KV("atom", Str("He")), KV("verbose", Num("4")),
           KV("results", Str("atom_coords"))>>)

B_cell == Dict(<<KV("atom", Str("He")), KV("a", Str("eye"))>>)

B_scf ==
    Dict(<<KV("conv_tol", Num("1e-09")),
           KV("results", List(<<Str("e_tot")>>))>>)

B_ks ==
    Dict(<<KV("newton", Dict(<<KV("micro", Num("2"))>>)),
           KV("grids", Dict(<<KV("level", Num("3"))>>)),
           KV("density_fit", Dict(<<KV("auxbasis", Str("weigend"))>>)),
           KV("xc", Str("b3lyp"))>>)

B_post == Dict(<<KV("results", List(<<Str("e_tot"), Str("e_corr")>>))>>)

B_attr == Dict(<<KV("eps", Num("1.8"))>>)

B_empty == Dict(<<>>)

B_call == Dict(<<KV("args", List(<<Num("3")>>))>>)

Stage(key, body) == [key |-> key, body |-> body]

\* the stages documents are made of
StagePool ==
    {Stage("MOLE", B_mole), Stage("MOLE-1", B_mole_results),
     Stage("CELL", B_cell), Stage("Mole", B_mole),
     Stage("VERSION", Str("v1")), Stage("IMPORT", Str("scipy.linalg")),
     Stage("HF", B_scf), Stage("RKS-1", B_ks), Stage("HF-2", None),
     Stage("DDCOSMO", B_attr), Stage("ddCOSMO-1", B_attr),
     Stage("CASSCF(4,2)", B_empty), Stage("CASSCF", B_empty),
     Stage("CAS.x", B_empty),
     Stage("CCSD", B_post), Stage("nuc_grad_method", B_empty),
     Stage("GRADIENTS", B_attr), Stage("GEOMOPT", None),
     Stage("GEOMOPT-1", B_empty), Stage("np.zeros", B_call)}

\* a document is an ordered mapping: no key twice
Docs ==
    {d \in UNION {[1..n -> StagePool] : n \in 1..MaxStages} :
        \A i, j \in 1..Len(d) : d[i].key = d[j].key => i = j}

(***************************************************************************)
(* The state machine.                                                      *)
(***************************************************************************)
\* _Task.__init__, with the command line of the invocation read
Init ==
    /\ doc \in Docs
    /\ invocation = 1
    /\ config = None
    /\ dry_run = FALSE
    /\ _ctx = <<>>
    /\ ctx = None
    /\ pos = 0
    /\ pc = "init"
    /\ err = ""
    /\ out = <<>>
    /\ calls = <<>>
    /\ heap = <<>>
    /\ output = None
    /\ hlog = <<>>
    /\ prev = None
    /\ python = 3   \* see ResolveSegments: the interpreters differ only on
                    \* requested paths that index or call; Docs has none

\* args.dry_run of the invocation
ArgsDryRun == invocation = 1

Machine ==
    [config |-> config, dry_run |-> dry_run, _ctx |-> _ctx, out |-> out,
     calls |-> calls, heap |-> heap, err |-> "", ret |-> None,
     py |-> python]

\* main up to the first iteration of run: the document is loaded, the
\* mode is set, result() calls run(), which prints the header
Main ==
    /\ pc = "init"
    /\ config' = doc
    /\ dry_run' = ArgsDryRun
    /\ out' = make_header([Machine EXCEPT !.dry_run = ArgsDryRun]).out
    /\ ctx' = None
    /\ pos' = 1
    /\ pc' = "run"
    /\ UNCHANGED <<doc, invocation, _ctx, err, calls, heap, output, hlog, prev,
                   python>>

\* the history entry of one handler invocation: the handler, the stage key,
\* the context passed, what came back, and the spans of out, calls and _ctx
\* the stage wrote
LogEntry(h, token, m) ==
    [handler |-> h, key |-> token, ctxIn |-> ctx, ret |-> m.ret,
     err |-> m.err, out0 |-> Len(out), out1 |-> Len(m.out),
     calls0 |-> Len(calls), calls1 |-> Len(m.calls),
     ctx0 |-> Len(_ctx), ctx1 |-> Len(m._ctx)]

\* Commit that does not hand the returned context to the next stage
Commit_keepsContext(m, token) ==
    /\ config' = m.config
    /\ _ctx' = m._ctx
    /\ out' = m.out
    /\ calls' = m.calls
    /\ heap' = m.heap
    /\ err' = m.err
    /\ hlog' = IF Dispatch(token) = "KeyError" THEN hlog
               ELSE Append(hlog, LogEntry(Dispatch(token), token, m))
    /\ IF Failed(m)
       THEN pc' = "error" /\ UNCHANGED <<ctx, pos>>
       ELSE pc' = "run" /\ ctx' = ctx /\ pos' = pos + 1

\* Commit that goes on to the next stage when a handler raised
Commit_skipsFailedStage(m, token) ==
    /\ config' = m.config
    /\ _ctx' = m._ctx
    /\ out' = m.out
    /\ calls' = m.calls
    /\ heap' = m.heap
    /\ err' = m.err
    /\ hlog' = IF Dispatch(token) = "KeyError" THEN hlog
               ELSE Append(hlog, LogEntry(Dispatch(token), token, m))
    /\ pc' = "run"
    /\ ctx' = IF Failed(m) THEN ctx ELSE m.ret
    /\ pos' = pos + 1

\* the assignments of one iteration: m is the machine after the stage
Commit(m, token) ==
    /\ config' = m.config
    /\ _ctx' = m._ctx
    /\ out' = m.out
    /\ calls' = m.calls
    /\ heap' = m.heap
    /\ err' = m.err
    /\ hlog' = IF Dispatch(token) = "KeyError" THEN hlog
               ELSE Append(hlog, LogEntry(Dispatch(token), token, m))
    /\ IF Failed(m)
       THEN pc' = "error" /\ UNCHANGED <<ctx, pos>>
       ELSE pc' = "run" /\ ctx' = m.ret /\ pos' = pos + 1

\* one iteration of run's loop
RunLoop ==
    /\ pc = "run"
    /\ pos <= Len(config)
    /\ Commit(RunStage(Machine, config[pos].key, ctx), config[pos].key)
    /\ UNCHANGED <<doc, invocation, dry_run, output, prev, python>>

\* the loop is over: run returns ctx, result returns the configuration and
\* main hands it to _make_output unless --dry-run was given
Finish ==
    /\ pc = "run"
    /\ pos > Len(config)
    /\ pc' = "done"
    /\ output' = IF ArgsDryRun THEN None ELSE [t |-> "doc", stages |-> config]
    /\ UNCHANGED <<doc, invocation, config, dry_run, _ctx, ctx, pos, err,
                   out, calls, heap, hlog, prev, python>>

\* the --dry-run invocation is over; the program is invoked again on the
\* same document without --dry-run: a new process, a new _Task
Reinvoke ==
    /\ pc \in {"done", "error"}
    /\ invocation = 1
    /\ prev' = [t |-> "run", pc |-> pc, err |-> err, out |-> out,
                hlog |-> hlog, config |-> config, tracked |-> _ctx,
                pos |-> pos, ctx |-> ctx, output |-> output]
    /\ invocation' = 2
    /\ config' = None
    /\ dry_run' = FALSE
    /\ _ctx' = <<>>
    /\ ctx' = None
    /\ pos' = 0
    /\ pc' = "init"
    /\ err' = ""
    /\ out' = <<>>
    /\ calls' = <<>>
    /\ heap' = <<>>
    /\ output' = None
    /\ hlog' = <<>>
    /\ UNCHANGED <<doc, python>>

Next == Main \/ RunLoop \/ Finish \/ Reinvoke

Spec == Init /\ [][Next]_vars

(***************************************************************************)
(* _update_attributes on its own: an object with attributes that are       *)
(* absent, None, a mapping or another object, and a body applied to it     *)
(* again and again.  Here doc is the body, prev the objects before the     *)
(* first application and hlog the objects after each application.          *)
(***************************************************************************)
\* the number of times the body is applied
MaxApply == 2

\* an attribute the object does not have
Absent == [t |-> "absent"]

\* the attributes named in the order given, those that are Absent left out
AttrsOf(names, vals) ==
    Dict(SelectSeq([i \in 1..Len(names) |-> KV(names[i], vals[i])],
                   LAMBDA e : e.v # Absent))

\* object 1 is the context, object 2 what its grids may refer to, object 3
\* what the prune of object 2 may refer to
AttrHeaps ==
    {<<Obj("SCF", "RKS", None, None, AttrsOf(<<"grids", "opts">>, <<g, o>>)),
       Obj("Grids", "Grids", None, None,
           AttrsOf(<<"level", "prune">>, <<l, p>>)),
       Obj("Grids", "Prune", None, None, Dict(<<KV("keep", Num("7"))>>))>> :
     g \in {Absent, None, Dict(<<KV("level", Num("1"))>>), Ref(2)},
     o \in {Absent, Dict(<<KV("b", Num("2"))>>)},
     l \in {Absent, Num("1")},
     p \in {Absent, None, Ref(3)}}

U_level == Dict(<<KV("grids", Dict(<<KV("level", Num("3"))>>))>>)

U_nested ==
    Dict(<<KV("grids",
              Dict(<<KV("level", Num("3")),
                     KV("prune", Dict(<<KV("keep", Num("0")),
                                        KV("x", Num("1"))>>))>>))>>)

U_mixed ==
    Dict(<<KV("conv_tol", Num("1e-09")),
           KV("opts", Dict(<<KV("a", Num("1"))>>)),
           KV("results", List(<<Str("e_tot")>>)),
           KV("args", List(<<Num("3")>>))>>)

U_scalar == Dict(<<KV("grids", Num("5"))>>)

U_prune ==
    Dict(<<KV("grids", Dict(<<KV("prune", Dict(<<KV("x", Num("1"))>>))>>)),
           KV("kwargs", Dict(<<KV("k", Num("1"))>>))>>)

\* the bodies applied: mappings, and what is no mapping
UpdateBodies ==
    {U_level, U_nested, U_mixed, U_scalar, U_prune, B_empty, B_ks,
     Str("x"), None}

InitAttr ==
    /\ doc \in UpdateBodies
    /\ heap \in AttrHeaps
    /\ prev = heap
    /\ invocation = 2
    /\ config = None
    /\ dry_run = FALSE
    /\ _ctx = <<>>
    /\ ctx = Ref(1)
    /\ pos = 0
    /\ pc = "attr"
    /\ err = ""
    /\ out = <<>>
    /\ calls = <<>>
    /\ output = None
    /\ hlog = <<>>
    /\ python = 3

\* the assignments of one application: m is the machine after it
ApplyCommit(m) ==
    /\ heap' = m.heap
    /\ calls' = m.calls
    /\ err' = m.err
    /\ ctx' = m.ret
    /\ hlog' = Append(hlog, m.heap)

\* ctx = _update_attributes(ctx, body)
Apply ==
    /\ pc = "attr"
    /\ err = ""
    /\ Len(hlog) < MaxApply
    /\ ApplyCommit(_update_attributes(Machine, ctx, doc))
    /\ UNCHANGED <<doc, invocation, config, dry_run, _ctx, pos, pc, out,
                   output, prev, python>>

NextAttr == Apply

SpecAttr == InitAttr /\ [][NextAttr]_vars

(***************************************************************************)
(* handle_scf on its own: one mean-field stage whose body holds a few of   *)
(* the keys below in any order, handled in emit mode on the name mol and   *)
(* in execute mode on a molecule.                                          *)
(***************************************************************************)
\* the most keys a mean-field body holds
MaxScfKeys == 3

ScfKeys == {"xc", "conv_tol", "grids", "newton", "density_fit", "x2c"}

\* the value each key has in a body
ScfValue(k) ==
    CASE k = "xc" -> Str("b3lyp")
      [] k = "conv_tol" -> Num("1e-09")
      [] k = "grids" -> Dict(<<KV("level", Num("3"))>>)
      [] k = "newton" -> Dict(<<KV("micro", Num("2"))>>)
      [] k = "density_fit" -> Dict(<<KV("auxbasis", Str("weigend"))>>)
      [] k = "x2c" -> Dict(<<>>)

\* the bodies: every choice of up to MaxScfKeys keys, in every order
ScfBodies ==
    {Dict([i \in 1..Len(ks) |-> KV(ks[i], ScfValue(ks[i]))]) :
     ks \in {s \in UNION {[1..n -> ScfKeys] : n \in 0..MaxScfKeys} :
             \A i, j \in 1..Len(s) : i # j => s[i] # s[j]}}

InitScf ==
    /\ doc \in {<<Stage("RKS", b)>> : b \in ScfBodies}
    /\ config = doc
    /\ dry_run \in BOOLEAN
    /\ invocation = IF dry_run THEN 1 ELSE 2
    /\ heap = IF dry_run THEN <<>>
              ELSE <<Obj("Mole", "M", None, None, Dict(<<>>))>>
    /\ ctx = IF dry_run THEN Str("mol") ELSE Ref(1)
    /\ _ctx = <<>>
    /\ pos = 1
    /\ pc = "scf"
    /\ err = ""
    /\ out = <<>>
    /\ calls = <<>>
    /\ output = None
    /\ hlog = <<>>
    /\ prev = None
    /\ python = 3

\* ctx = self.handle_scf(token, ctx)
ApplyScf ==
    /\ pc = "scf"
    /\ Commit(handle_scf(Machine, doc[1].key, ctx), doc[1].key)
    /\ UNCHANGED <<doc, invocation, dry_run, output, prev, python>>

NextScf == ApplyScf

SpecScf == InitScf /\ [][NextScf]_vars

(***************************************************************************)
(* extract_results on its own, in execute mode: a mean-field stage that    *)
(* has run, whose body requests up to MaxTokens paths, under either        *)
(* interpreter.                                                            *)
(***************************************************************************)
\* the most paths a results request holds
MaxTokens == 2

ResultTokens ==
    {"e_tot", "mo_energy", "mo_energy[0]", "mol.nao", "mol.atom_coords",
     "mol.atom_coords()"}

\* the requests: every choice of up to MaxTokens paths in every order, and
\* one path given as a plain string
ResultRequests ==
    {List([i \in 1..Len(ts) |-> Str(ts[i])]) :
     ts \in {s \in UNION {[1..n -> ResultTokens] : n \in 0..MaxTokens} :
             \A i, j \in 1..Len(s) : i # j => s[i] # s[j]}}
    \cup {Str(t) : t \in ResultTokens}

InitResults ==
    /\ doc \in {<<Stage("HF", Dict(<<KV("conv_tol", Num("1e-09")),
                                      KV("results", r)>>))>> :
                 r \in ResultRequests}
    /\ python \in Interpreters
    /\ config = doc
    /\ dry_run = FALSE
    /\ invocation = 2
    /\ heap = <<Obj("Mole", "M", None, None, Dict(<<>>)),
                [Obj("SCF", "HF", Ref(1), None, Dict(<<>>))
                   EXCEPT !.ran = TRUE]>>
    /\ ctx = Ref(2)
    /\ _ctx = <<>>
    /\ pos = 1
    /\ pc = "results"
    /\ err = ""
    /\ out = <<>>
    /\ calls = <<>>
    /\ output = None
    /\ hlog = <<>>
    /\ prev = None

\* the assignments of the call: m is the machine after it
ResultsCommit(m) ==
    /\ config' = m.config
    /\ err' = m.err
    /\ pc' = IF Failed(m) THEN "error" ELSE "extracted"

\* self.extract_results(entry_name, ctx)
ApplyResults ==
    /\ pc = "results"
    /\ ResultsCommit(extract_results(Machine, doc[1].key, ctx))
    /\ UNCHANGED <<doc, invocation, dry_run, _ctx, ctx, pos, out, calls, heap,
                   output, hlog, prev, python>>

NextResults == ApplyResults

SpecResults == InitResults /\ [][NextResults]_vars

(***************************************************************************)
(* Properties.  The history hlog has one entry per handler invocation;     *)
(* prev holds the finished --dry-run invocation on the same document.      *)
(***************************************************************************)
\* the base name of a stage key: the text before the first '-'
BaseName(key) == SplitFirst(key, "-")

\* the structural stage names and the handler each one names
StructuralHandler ==
    [VERSION |-> "handle_version", IMPORT |-> "handle_import",
     MOLE |-> "handle_mole_cell", CELL |-> "handle_mole_cell",
     DDCOSMO |-> "handle_solvent_model", DDPCM |-> "handle_solvent_model",
     SOLVENT |-> "handle_solvent_model", GRADIENTS |-> "handle_gradients",
     GEOMOPT |-> "handle_geomopt"]

StructuralNames == DOMAIN StructuralHandler

\* both invocations on the document have run to the end
BothDone == invocation = 2 /\ pc = "done" /\ prev.pc = "done"

(***************************************************************************)
(* C1: run invokes exactly one handler per stage, in the order of the      *)
(* document's keys; the context a handler returns is the context the next  *)
(* handler is passed, the first handler is passed None, and the keys of    *)
(* the document result() returns are in the input's order.                 *)
(***************************************************************************)
C1_OneHandlerPerStageInOrder ==
    /\ Len(hlog) <= Len(doc)
    /\ \A k \in 1..Len(hlog) :
          /\ hlog[k].key = doc[k].key
          /\ hlog[k].ctxIn = IF k = 1 THEN None ELSE hlog[k - 1].ret
    /\ pc = "run" => Len(hlog) = pos - 1
    /\ pc = "done" =>
          /\ Len(hlog) = Len(doc)
          /\ ctx = hlog[Len(hlog)].ret
          /\ Len(config) = Len(doc)
          /\ \A i \in 1..Len(doc) : config[i].key = doc[i].key
          /\ ~dry_run => output.stages = config

\* an execute-mode run of three stages ended, contexts were handed on and
\* results were stored
C1_Witness ==
    /\ pc = "done" /\ ~dry_run /\ invocation = 2
    /\ Len(hlog) = 3
    /\ hlog[2].ctxIn # None /\ hlog[3].ctxIn # hlog[2].ctxIn
    /\ config # doc

\* handler h is the one the first rule matching base name b names; ub is b
\* upper-cased
C2_RuleHolds(h, b, ub) ==
    IF ub \in StructuralNames THEN h = StructuralHandler[ub]
    ELSE IF b \in _SCF_METHODS THEN h = "handle_scf"
    ELSE IF First3(ub) = "CAS" THEN h = "handle_mcscf"
    ELSE IF Contains(b, ".") THEN h = "handle_custom_statements"
    ELSE h = "handle_postscf"

(***************************************************************************)
(* C2: the handler of a stage is the one the first matching rule names:    *)
(* structural table, mean-field method set, CAS prefix, '.', post-method.  *)
(* A key starting with CAS that is in neither table goes to handle_mcscf,  *)
(* never to handle_postscf or handle_custom_statements, and a stage no     *)
(* handler is invoked for matched the structural table.                    *)
(***************************************************************************)
C2_FirstMatchingRuleWins ==
    /\ \A k \in 1..Len(hlog) :
          C2_RuleHolds(hlog[k].handler, BaseName(hlog[k].key),
                       Upper(BaseName(hlog[k].key)))
    /\ (pc = "error" /\ Len(hlog) < pos) =>
          Upper(BaseName(config[pos].key)) \in StructuralNames

\* a key with the CAS prefix and a '.' was handled by handle_mcscf
C2_Witness ==
    \E k \in 1..Len(hlog) :
        /\ hlog[k].key = "CAS.x"
        /\ hlog[k].handler = "handle_mcscf"
        /\ k > 1

(***************************************************************************)
(* C3: a stage whose base name upper-cased is a structural name, whatever  *)
(* its capitalisation, is dispatched to the handler of that name, with no  *)
(* KeyError.                                                               *)
(***************************************************************************)
C3_AnyCapitalisationDispatched ==
    \A i \in 1..Len(doc) :
        (/\ pc \in {"run", "done", "error"}
         /\ i <= pos
         /\ (pc = "run" => i < pos)
         /\ Upper(BaseName(doc[i].key)) \in StructuralNames)
        => /\ i <= Len(hlog)
           /\ hlog[i].handler = StructuralHandler[Upper(BaseName(doc[i].key))]
           /\ ~(i = pos /\ err = "KeyError")

(***************************************************************************)
(* C4: after an execute-mode run the result document maps each stage with  *)
(* a results request to a mapping from each requested path to its value,   *)
(* and holds no configuration attribute of the input.                      *)
(***************************************************************************)
C4_ResultDocumentOnlyResults ==
    (pc = "done" /\ ~dry_run) =>
        \A i \in 1..Len(doc) :
            LET b == output.stages[i].body
                d == doc[i].body
            IN /\ (IsDict(d) /\ DictHas(d, "results")) =>
                     /\ IsDict(b)
                     /\ Range(DictKeys(b)) =
                           {t.s : t \in Range(RequestTokens(
                                                DictGet(d, "results")))}
               /\ (IsDict(b) /\ IsDict(d)) =>
                     Range(DictKeys(b)) \cap (Range(DictKeys(d)) \ _PHONY)
                        = {}

\* the constructions a script makes, in order: method and keyword arguments
EmitConstructions(o) ==
    LET ns == SelectSeq(o, LAMBDA x : x.s = "new")
    IN [i \in 1..Len(ns) |->
          [method |-> ns[i].method,
           kwargs |-> {<<a.token, a.val>> : a \in Range(ns[i].kwargs)}]]

\* the constructions a run makes, in order
ExecConstructions(cs) ==
    LET ns == SelectSeq(cs, LAMBDA x : x.op = "call" /\ x.method # "run")
    IN [i \in 1..Len(ns) |->
          [method |-> ns[i].method,
           kwargs |-> {<<a.k, a.v>> : a \in Range(ns[i].kwargs.items)}]]

\* the attributes a script assigns, and the ones a run assigns
EmitAssigned(o) ==
    {<<x.token, x.val>> : x \in {y \in Range(o) : y.s = "assign"}}

ExecAssigned(cs) ==
    {<<x.name, x.val>> : x \in {y \in Range(cs) : y.op = "setattr"}}

(***************************************************************************)
(* C5: for a document of one MOLE or CELL stage followed by one mean-field *)
(* stage, the script of the emit run makes the constructions the execute   *)
(* run makes: the same methods in the same order, each with the same       *)
(* keyword arguments, and the same attributes assigned.                    *)
(***************************************************************************)
C5_EmitMatchesExecute ==
    (/\ BothDone
     /\ Len(doc) = 2
     /\ BaseName(doc[1].key) \in {"MOLE", "CELL"}
     /\ BaseName(doc[2].key) \in _SCF_METHODS)
    => /\ EmitConstructions(prev.out) = ExecConstructions(calls)
       /\ EmitAssigned(prev.out) = ExecAssigned(calls)

(***************************************************************************)
(* C6: in emit mode no import is done, no library object is built or run,  *)
(* no results mapping is written into the configuration, and no output is  *)
(* written; the mode is the one the command line gave from the start of    *)
(* run to its end.                                                         *)
(***************************************************************************)
C6_DryRunTouchesNothing ==
    /\ pc # "init" => dry_run = ArgsDryRun
    /\ dry_run => /\ calls = <<>>
                  /\ heap = <<>>
                  /\ config = doc
                  /\ output = None
    /\ invocation = 2 => prev.config = doc /\ prev.output = None

\* an emit run of three stages printed results statements and ended
C6_Witness ==
    /\ dry_run /\ pc = "done"
    /\ Len(hlog) = 3
    /\ \E i \in 1..Len(doc) :
          IsDict(doc[i].body) /\ DictHas(doc[i].body, "results")
    /\ \E i \in 1..Len(out) : out[i].s = "result"
    /\ \E i \in 1..Len(out) : out[i].s = "run"

(***************************************************************************)
(* C7: a stage named ddCOSMO or ddPCM in any capitalisation, reached with  *)
(* a mean-field context, passes the name check and a solvent object is     *)
(* built on the context, configured and run.                               *)
(***************************************************************************)
C7_SolventOnMeanFieldAccepted ==
    \A k \in 1..Len(hlog) :
        LET e == hlog[k]
        IN (/\ e.handler = "handle_solvent_model"
            /\ Upper(BaseName(e.key)) \in {"DDCOSMO", "DDPCM"}
            /\ IF dry_run THEN e.ctxIn = Str("mf")
               ELSE IsRef(e.ctxIn) /\ heap[e.ctxIn.id].kind = "SCF")
           => /\ e.err = ""
              /\ IF dry_run THEN e.out1 > e.out0 /\ e.ret = Str("mf")
                 ELSE e.calls1 > e.calls0

\* the errors the stage undergoing them did nothing before raising
FatalKinds ==
    {"RuntimeError: Invalid solvent model",
     "RuntimeError: Solvent model can be applied to SCF object only",
     "AttributeError: _scf"}

FirstStmt(e, o) == o[e.out0 + 1]

FirstCall(e, cs) == cs[e.calls0 + 1]

\* the invocation got as far as its construction
Constructed(e) == IF dry_run THEN e.out1 > e.out0 ELSE e.calls1 > e.calls0

(***************************************************************************)
(* C9 as stated: for a key M(a,b) the method M is called with a first and  *)
(* b second.                                                               *)
(***************************************************************************)
C9_ArgumentsInKeyOrder ==
    \A k \in 1..Len(hlog) :
        LET e == hlog[k]
            nums == FindAllDigits(BaseName(e.key))
        IN (e.handler = "handle_mcscf" /\ Constructed(e))
           => IF dry_run
              THEN FirstStmt(e, out).pargs = <<nums[1], nums[2]>>
              ELSE FirstCall(e, calls).args =
                      <<IntV(ToInt(nums[1])), IntV(ToInt(nums[2]))>>

(***************************************************************************)
(* C9 amended: for a key M(a,b) the method M is called with b first and a  *)
(* second, a being read as the electron count and b as the orbital count,  *)
(* as text in emit mode and as integers in execute mode.                   *)
(***************************************************************************)
C9_ArgumentsSwapped ==
    \A k \in 1..Len(hlog) :
        LET e == hlog[k]
            nums == FindAllDigits(BaseName(e.key))
        IN (e.handler = "handle_mcscf" /\ Constructed(e))
           => IF dry_run
              THEN /\ FirstStmt(e, out).method = SplitFirst(e.key, "(")
                   /\ FirstStmt(e, out).pargs = <<nums[2], nums[1]>>
              ELSE /\ FirstCall(e, calls).method = SplitFirst(e.key, "(")
                   /\ FirstCall(e, calls).args =
                         <<IntV(ToInt(nums[2])), IntV(ToInt(nums[1]))>>

\* an execute run built CASSCF(4,2) on a mean-field context
C9_Witness ==
    \E k \in 1..Len(hlog) :
        /\ ~dry_run /\ pc # "init"
        /\ hlog[k].key = "CASSCF(4,2)"
        /\ hlog[k].err = ""
        /\ FirstCall(hlog[k], calls).args = <<IntV(2), IntV(4)>>
        /\ heap[FirstCall(hlog[k], calls).recv.id].kind = "SCF"

(***************************************************************************)
(* C10: a multi-configuration or post-method stage is built on the same    *)
(* effective context in both modes: the running context itself when it is  *)
(* a molecule, cell or mean-field object, its _scf otherwise.              *)
(***************************************************************************)
C10_SameEffectiveContext ==
    invocation = 2 =>
        \A k \in 1..Len(hlog) :
            (/\ k <= Len(prev.hlog)
             /\ hlog[k].handler \in {"handle_mcscf", "handle_postscf"}
             /\ hlog[k].calls1 > hlog[k].calls0
             /\ prev.hlog[k].out1 > prev.hlog[k].out0)
            => LET emitBack == FirstStmt(prev.hlog[k], prev.out).recv
                                 # Fmt(prev.hlog[k].ctxIn)
                   execBack == FirstCall(hlog[k], calls).recv
                                 # hlog[k].ctxIn
                   itself == heap[hlog[k].ctxIn.id].kind
                                \in {"Mole", "Cell", "SCF"}
               IN /\ emitBack = execBack
                  /\ itself = ~execBack

(***************************************************************************)
(* C11: after a GEOMOPT stage the running context is the molecule of the   *)
(* optimizer that was run, not the optimizer and not the molecule before   *)
(* the optimization, in both modes; a mean-field, multi-configuration or   *)
(* post-method stage that follows is built on that molecule.               *)
(***************************************************************************)
C11_GeomoptHandsOnOptimizedMolecule ==
    \A k \in 1..Len(hlog) :
        (hlog[k].handler = "handle_geomopt" /\ hlog[k].err = "")
        => /\ IF dry_run
              THEN /\ hlog[k].ret = Str("mol")
                   /\ out[hlog[k].out1] =
                         [s |-> "molof", target |-> "mol",
                          recv |-> hlog[k].ctxIn.s \o "_opt"]
                   /\ \E i \in (hlog[k].out0 + 1)..hlog[k].out1 :
                         out[i] = RunStmt(hlog[k].ctxIn.s \o "_opt")
              ELSE /\ IsRef(hlog[k].ret)
                   /\ heap[hlog[k].ret.id].kind \in {"Mole", "Cell"}
                   /\ hlog[k].ret # hlog[k].ctxIn
                   /\ hlog[k].ret # heap[hlog[k].ctxIn.id].mol
                   /\ \E i \in (hlog[k].calls0 + 1)..hlog[k].calls1 :
                         /\ calls[i].op = "call"
                         /\ calls[i].method = "run"
                         /\ heap[calls[i].recv.id].kind = "Opt"
                         /\ heap[calls[i].recv.id].mol = hlog[k].ret
                         /\ \A j \in 1..(i - 1) :
                               calls[j].op = "call" =>
                                  calls[j].res # hlog[k].ret
           /\ (/\ k < Len(hlog)
               /\ hlog[k + 1].handler \in {"handle_scf", "handle_mcscf",
                                           "handle_postscf"}
               /\ Constructed(hlog[k + 1]))
              => IF dry_run
                 THEN FirstStmt(hlog[k + 1], out).recv = "mol"
                 ELSE FirstCall(hlog[k + 1], calls).recv = hlog[k].ret

\* an execute run optimized the geometry and built a post-method object on
\* the optimizer's molecule, after the emit run of the document did so too
C11_Witness ==
    /\ invocation = 2 /\ ~dry_run /\ pc = "done"
    /\ Len(hlog) = 3
    /\ hlog[2].handler = "handle_geomopt"
    /\ hlog[3].handler = "handle_postscf"
    /\ FirstCall(hlog[3], calls).recv = hlog[2].ret
    /\ prev.pc = "done"
    /\ FirstStmt(prev.hlog[3], prev.out).recv = "mol"

(***************************************************************************)
(* C12: a free-form expression stage (a key with a '.') completes and      *)
(* hands on the context it was passed, in both modes: the handler returns  *)
(* without an error, what it returns is the context that was current, and  *)
(* the run goes on to the next stage with it.                              *)
(***************************************************************************)
C12_FreeFormKeepsContext ==
    \A k \in 1..Len(hlog) :
        hlog[k].handler = "handle_custom_statements"
        => /\ hlog[k].err = ""
           /\ hlog[k].ret = hlog[k].ctxIn
           /\ pc # "error"

(***************************************************************************)
(* C13: a VERSION or IMPORT stage leaves the running context unchanged:    *)
(* the handler returns without an error, the run continues, and the stage  *)
(* after it is passed the context that was current before it.              *)
(***************************************************************************)
C13_VersionImportKeepContext ==
    \A k \in 1..Len(hlog) :
        hlog[k].handler \in {"handle_version", "handle_import"}
        => /\ hlog[k].err = ""
           /\ hlog[k].ret = hlog[k].ctxIn
           /\ k < Len(hlog) => hlog[k + 1].ctxIn = hlog[k].ctxIn

(***************************************************************************)
(* C14: a MOLE or CELL stage with no context makes a new descriptor, in    *)
(* execute mode by pyscf.M with the body's keywords and verbose=2 when the *)
(* body has no verbose; with a context it rebuilds that context and        *)
(* returns the very context it was passed, making no new object.  Either   *)
(* way exactly one entry, the context returned, is appended to the tracked *)
(* contexts.                                                               *)
(***************************************************************************)
C14_MoleCellFreshOrInPlace ==
    \A k \in 1..Len(hlog) :
        (hlog[k].handler = "handle_mole_cell" /\ hlog[k].err = "")
        => /\ hlog[k].ctx1 = hlog[k].ctx0 + 1
           /\ _ctx[hlog[k].ctx1] = hlog[k].ret
           /\ IF dry_run
              THEN IF IsNone(hlog[k].ctxIn)
                   THEN /\ FirstStmt(hlog[k], out).s = "new"
                        /\ FirstStmt(hlog[k], out).method = "M"
                        /\ hlog[k].ret = Str(FirstStmt(hlog[k], out).target)
                   ELSE /\ FirstStmt(hlog[k], out).s = "build"
                        /\ FirstStmt(hlog[k], out).recv = hlog[k].ctxIn.s
                        /\ hlog[k].ret = hlog[k].ctxIn
              ELSE IF IsNone(hlog[k].ctxIn)
                   THEN /\ FirstCall(hlog[k], calls).method = "M"
                        /\ FirstCall(hlog[k], calls).res = hlog[k].ret
                        /\ heap[hlog[k].ret.id].kind \in {"Mole", "Cell"}
                        /\ FirstCall(hlog[k], calls).kwargs =
                              IF DictHas(doc[k].body, "verbose")
                              THEN doc[k].body
                              ELSE DictSet(doc[k].body, "verbose", IntV(2))
                   ELSE /\ FirstCall(hlog[k], calls).method = "build"
                        /\ FirstCall(hlog[k], calls).recv = hlog[k].ctxIn
                        /\ hlog[k].ret = hlog[k].ctxIn
                        /\ \A i \in (hlog[k].calls0 + 1)..hlog[k].calls1 :
                              calls[i].op = "call" =>
                                 calls[i].method # "M"

\* an execute run made a cell with verbose=2 and a later MOLE stage rebuilt
\* it in place
C14_Witness ==
    /\ ~dry_run /\ pc = "done" /\ Len(hlog) >= 2
    /\ hlog[1].handler = "handle_mole_cell"
    /\ DictGet(FirstCall(hlog[1], calls).kwargs, "verbose") = IntV(2)
    /\ \E k \in 2..Len(hlog) :
          /\ hlog[k].handler = "handle_mole_cell"
          /\ hlog[k].err = ""
          /\ hlog[k].ret = hlog[1].ret
          /\ Len(_ctx) >= 2

(***************************************************************************)
(* C15: in both modes the reserved keys args, kwargs and results are never *)
(* assigned as an attribute nor passed as a keyword to a construction, a   *)
(* build or a modifier call: no printed statement and no library call      *)
(* names one of them.                                                      *)
(***************************************************************************)
C15_ReservedKeysNeverApplied ==
    /\ \A i \in 1..Len(out) :
          /\ out[i].s = "assign" => out[i].token \notin _PHONY
          /\ out[i].s \in {"new", "build"} =>
                \A j \in 1..Len(out[i].kwargs) :
                    out[i].kwargs[j].token \notin _PHONY
    /\ \A i \in 1..Len(calls) :
          /\ calls[i].op = "setattr" => calls[i].name \notin _PHONY
          /\ calls[i].op = "call" =>
                \A j \in 1..Len(calls[i].kwargs.items) :
                    calls[i].kwargs.items[j].k \notin _PHONY

\* C16: applying a body to an object a second time changes nothing: the
\* objects after every later application are the objects after the first,
\* at every nesting level, and no application fails.
C16_UpdateIdempotent ==
    pc = "attr" =>
        /\ err = ""
        /\ \A i \in 1..Len(hlog) : hlog[i] = hlog[1]

\* a body with a nested mapping was applied twice to an object whose grids
\* is an object whose prune is an object, and the first application
\* changed the object two levels down
C16_Witness ==
    /\ pc = "attr"
    /\ Len(hlog) >= 2
    /\ doc = U_nested
    /\ prev[1].attrs = Dict(<<KV("grids", Ref(2))>>)
    /\ DictHas(prev[2].attrs, "prune")
    /\ DictGet(prev[2].attrs, "prune") = Ref(3)
    /\ hlog[1][3] # prev[3]
    /\ hlog[2] = hlog[1]

\* the value of attribute name of object id among the objects h
AttrAt(h, id, name) ==
    IF DictHas(h[id].attrs, name) THEN DictGet(h[id].attrs, name) ELSE Absent

RECURSIVE C17_KeysHold(_, _, _, _)
\* what one application of the mapping body did to object id, key by key,
\* between the objects pre and the objects post
C17_KeysHold(pre, post, id, body) ==
    \A e \in Range(body.items) :
        CASE e.k \in _PHONY ->
                 AttrAt(post, id, e.k) = AttrAt(pre, id, e.k)
          [] e.k \notin _PHONY /\ IsDict(e.v) /\ IsRef(AttrAt(pre, id, e.k)) ->
                 /\ AttrAt(post, id, e.k) = AttrAt(pre, id, e.k)
                 /\ \A n \in Range(DictKeys(pre[AttrAt(pre, id, e.k).id].attrs)) :
                        ~DictHas(e.v, n) =>
                            AttrAt(post, AttrAt(pre, id, e.k).id, n)
                                = AttrAt(pre, AttrAt(pre, id, e.k).id, n)
                 /\ C17_KeysHold(pre, post, AttrAt(pre, id, e.k).id, e.v)
          [] e.k \notin _PHONY /\ IsDict(e.v)
                 /\ (AttrAt(pre, id, e.k) = Absent
                        \/ IsDict(AttrAt(pre, id, e.k))) ->
                 AttrAt(post, id, e.k) = e.v
          [] e.k \notin _PHONY /\ ~IsDict(e.v) ->
                 AttrAt(post, id, e.k) = e.v
          [] OTHER -> TRUE

\* C17: for every non-reserved key of the body, a mapping value is applied
\* inside an existing sub-object, which stays in place with its other
\* attributes; a mapping value replaces an absent or mapping attribute
\* wholesale; any other value is set directly; reserved keys are skipped
\* and a body that is no mapping leaves the object untouched.
C17_UpdateCaseAnalysis ==
    (pc = "attr" /\ Len(hlog) >= 1) =>
        /\ ctx = Ref(1)
        /\ IF IsDict(doc)
           THEN C17_KeysHold(prev, hlog[1], 1, doc)
           ELSE hlog[1] = prev

\* a mapping went into the existing sub-object: it is still the grids of
\* the context, kept its level and gained the prune; the reserved key
\* kwargs was not set
C17_Witness ==
    /\ pc = "attr"
    /\ Len(hlog) = 1
    /\ doc = U_prune
    /\ AttrAt(prev, 1, "grids") = Ref(2)
    /\ AttrAt(prev, 2, "level") = Num("1")
    /\ AttrAt(prev, 2, "prune") = Absent
    /\ AttrAt(hlog[1], 1, "grids") = Ref(2)
    /\ AttrAt(hlog[1], 2, "level") = Num("1")
    /\ AttrAt(hlog[1], 2, "prune") = Dict(<<KV("x", Num("1"))>>)
    /\ AttrAt(hlog[1], 1, "kwargs") = Absent

\* the statements a handler invocation printed, and the library calls and
\* attribute assignments it made
StmtsOf(e) == SubSeq(out, e.out0 + 1, e.out1)

CallsOf(e) == SubSeq(calls, e.calls0 + 1, e.calls1)

\* the positions in seq of the elements for which Test holds
Positions(seq, Test(_)) == {i \in 1..Len(seq) : Test(seq[i])}

\* every position of before is below every position of after
AllBefore(before, after) == \A i \in before : \A j \in after : i < j

\* the modifier names a body holds, in the order of mf_methods
ExpectedModifiers(body) ==
    SelectSeq(mf_methods, LAMBDA k : DictHas(body, k))

IsModifierStmt(x) == x.s = "new" /\ x.method \in mf_methods_set

IsModifierCall(x) == x.op = "call" /\ x.method \in mf_methods_set

\* the script of a mean-field stage: assignments, then the modifiers of the
\* body in the fixed order, each assigned back to mf, then one run
C18_EmitOrdered(seg, body) ==
    /\ AllBefore(Positions(seg, LAMBDA x : x.s = "assign"),
                 Positions(seg, IsModifierStmt))
    /\ AllBefore(Positions(seg, LAMBDA x : x.s \in {"assign", "new"}),
                 Positions(seg, LAMBDA x : x.s = "run"))
    /\ Cardinality(Positions(seg, LAMBDA x : x.s = "run")) = 1
    /\ Cardinality(Positions(seg, LAMBDA x : x.s = "assign"))
         = Cardinality({k \in Range(DictKeys(body)) : k \notin mf_methods_set})
    /\ [i \in 1..Len(SelectSeq(seg, IsModifierStmt)) |->
           SelectSeq(seg, IsModifierStmt)[i].method] = ExpectedModifiers(body)
    /\ \A x \in Range(seg) :
           (IsModifierStmt(x) \/ x.s = "run") =>
               x.target = "mf" /\ x.recv = "mf"

RECURSIVE Chained(_, _)
\* each call of cs is made on what the call before it returned, the first
\* on start
Chained(cs, start) ==
    cs = <<>> \/ (Head(cs).recv = start /\ Chained(Tail(cs), Head(cs).res))

\* the calls of a mean-field stage: the construction, the assignments, the
\* modifiers of the body in the fixed order and one run, each modifier and
\* the run made on what the call before returned
C18_ExecOrdered(seg, body, ret) ==
    /\ AllBefore(Positions(seg, LAMBDA x : x.op = "setattr"),
                 Positions(seg, IsModifierCall))
    /\ AllBefore(Positions(seg, LAMBDA x : x.op = "setattr"
                                           \/ x.method # "run"),
                 Positions(seg, LAMBDA x : x.op = "call" /\ x.method = "run"))
    /\ Cardinality(Positions(seg, LAMBDA x : x.op = "call"
                                             /\ x.method = "run")) = 1
    /\ Cardinality(Positions(seg, LAMBDA x : x.op = "setattr"))
         = Cardinality({k \in Range(DictKeys(body)) : k \notin mf_methods_set})
    /\ [i \in 1..Len(SelectSeq(seg, IsModifierCall)) |->
           SelectSeq(seg, IsModifierCall)[i].method] = ExpectedModifiers(body)
    /\ seg[1].op = "call"
    /\ Chained(SelectSeq(seg, LAMBDA x : x.op = "call"), seg[1].recv)
    /\ ret = seg[Len(seg)].res

\* C18: whatever the order of the keys in a mean-field body, the plain
\* attributes are assigned before any modifier is applied, the modifiers
\* of the body are applied in the order of mf_methods, each on what the
\* step before returned, and the computation runs once, after the last
\* modifier; the script of emit mode and the calls of execute mode have
\* this same order.
C18_AttributesModifiersRun ==
    (pc = "run" /\ Len(hlog) = 1) =>
        /\ hlog[1].handler = "handle_scf"
        /\ IF dry_run
           THEN C18_EmitOrdered(StmtsOf(hlog[1]), doc[1].body)
           ELSE C18_ExecOrdered(CallsOf(hlog[1]), doc[1].body, hlog[1].ret)

\* execute mode, a body naming newton first, an attribute second and
\* density_fit last: density_fit was called before newton, after the
\* attribute was set
C18_Witness ==
    /\ pc = "run"
    /\ ~dry_run
    /\ DictKeys(doc[1].body) = <<"newton", "xc", "density_fit">>
    /\ Len(calls) = 5
    /\ calls[2].op = "setattr"
    /\ calls[3].method = "density_fit"
    /\ calls[4].method = "newton"
    /\ calls[5].method = "run"

RECURSIVE C19_Reached(_, _, _)
\* the sub-context reached from cur along the segments keys: an indexing
\* or call segment advances to the value of that expression on cur, a
\* plain segment to the attribute
C19_Reached(m, cur, keys) ==
    IF keys = <<>> THEN cur
    ELSE C19_Reached(m,
                     IF Contains(Head(keys), "[") \/ Contains(Head(keys), "(")
                     THEN Applied(cur, Head(keys))
                     ELSE LibGetattr(m, cur, Head(keys)).ret,
                     Tail(keys))

\* C19: in execute mode the results mapping stored in the body has one
\* entry per requested path, in request order, keyed by the path, whose
\* value is the one reached segment by segment, an indexing or call
\* segment advancing the sub-context to the value of that expression.
C19_ResultsResolvedBySegment ==
    pc = "extracted" =>
        LET tokens == RequestTokens(DictGet(doc[1].body, "results"))
            results == DictGet(config[1].body, "results")
        IN /\ IsDict(results)
           /\ DictKeys(results) = [i \in 1..Len(tokens) |-> tokens[i].s]
           /\ \A i \in 1..Len(tokens) :
                 results.items[i].v =
                     ResultValue(C19_Reached(Machine, ctx,
                                             SplitAll(tokens[i].s, ".")))

\* the handlers that take attributes from the stage body
AttributeHandlers ==
    {"handle_scf", "handle_mcscf", "handle_postscf", "handle_solvent_model",
     "handle_gradients", "handle_geomopt"}

\* the handler invocations of both invocations of the program so far
AllEntries ==
    Range(hlog) \cup (IF invocation = 2 THEN Range(prev.hlog) ELSE {})

\* C20: a stage whose body is null is accepted by every handler that takes
\* attributes, in emit mode and in execute mode alike: given a context,
\* the handler raises nothing.
C20_NullBodyAccepted ==
    \A e \in AllEntries :
        (/\ e.handler \in AttributeHandlers
         /\ IsNone(Entry(doc, e.key))
         /\ ~IsNone(e.ctxIn))
        => e.err = ""

\* the handlers of the context-producing stages
ProducingHandlers == AttributeHandlers \cup {"handle_mole_cell"}

\* what the handler invocations so far did to _ctx: each starts where the
\* one before ended, a handler of no context-producing stage adds nothing,
\* a completed context-producing one adds the context it returns
C21_TrackedByStage ==
    /\ \A k \in 1..Len(hlog) :
          /\ hlog[k].ctx0 = IF k = 1 THEN 0 ELSE hlog[k - 1].ctx1
          /\ hlog[k].ctx1 >= hlog[k].ctx0
          /\ hlog[k].ctx1 <= Len(_ctx)
          /\ hlog[k].handler \notin ProducingHandlers =>
                 hlog[k].ctx1 = hlog[k].ctx0
          /\ (hlog[k].handler \in ProducingHandlers /\ hlog[k].err = "") =>
                 /\ hlog[k].ctx1 = hlog[k].ctx0 + 1
                 /\ _ctx[hlog[k].ctx1] = hlog[k].ret
    /\ pc \in {"run", "done"} =>
          /\ Len(_ctx) = Cardinality({k \in 1..Len(hlog) :
                                        hlog[k].handler \in ProducingHandlers})
          /\ (hlog # <<>> /\ hlog[Len(hlog)].handler \in ProducingHandlers) =>
                 (_ctx # <<>> /\ _ctx[Len(_ctx)] = ctx)

\* within one invocation a step leaves the entries of _ctx in place
C21_OnlyGrows ==
    invocation' = invocation =>
        /\ Len(_ctx') >= Len(_ctx)
        /\ SubSeq(_ctx', 1, Len(_ctx)) = _ctx

\* C21: between the stages of a run _ctx only grows; it has one entry for
\* each completed context-producing stage and none for VERSION, IMPORT and
\* free-form stages; after a context-producing stage its last entry is the
\* running context.
C21_TrackedObjects == [](C21_TrackedByStage) /\ [][C21_OnlyGrows]_vars

\* execute mode between stages: a molecule, a mean-field and a geometry
\* optimization have completed and _ctx holds the three contexts, the last
\* being the optimized molecule handed on
C21_Witness ==
    /\ invocation = 2
    /\ pc = "run"
    /\ Len(hlog) = 3
    /\ hlog[1].handler = "handle_mole_cell"
    /\ hlog[2].handler = "handle_scf"
    /\ hlog[3].handler = "handle_geomopt"
    /\ Len(_ctx) = 3
    /\ _ctx[1] = hlog[1].ret
    /\ _ctx[3] = ctx
    /\ _ctx[3] # _ctx[1]

\* the variable an expression such as cell._scf starts with
RootName(expr) == SplitFirst(expr, ".")

\* the variable names a printed statement reads
Reads(x) ==
    CASE x.s \in {"new", "build", "run", "molof"} -> {RootName(x.recv)}
      [] x.s = "assign" ->
             IF x.prefix = "" THEN {} ELSE {RootName(x.prefix)}
      [] x.s = "result" -> {"results", RootName(x.recv)}
      [] x.s = "results_init" -> {"results"}
      [] OTHER -> {}

\* the variable names a printed statement assigns
Writes(x) ==
    CASE x.s \in {"new", "run", "molof"} -> {x.target}
      [] x.s = "import" -> {RootName(x.mod)}
      [] x.s = "text" ->
             CASE x.text = "import numpy as np" -> {"np"}
               [] x.text = "import pyscf" -> {"pyscf"}
               [] x.text = "results = {}" -> {"results"}
               [] OTHER -> {}
      [] OTHER -> {}

\* the names assigned by the statements stmts
AssignedBy(stmts) == UNION {Writes(x) : x \in Range(stmts)}

\* every statement of the script o reads only names assigned above it
DefineBeforeUse(o) ==
    \A i \in 1..Len(o) : Reads(o[i]) \subseteq AssignedBy(SubSeq(o, 1, i - 1))

\* C22: in emit mode, when a document that begins with a MOLE or CELL
\* stage has completed without error, every name a printed statement reads
\* was assigned by the header or by an earlier statement, and the name each
\* stage hands to the next as context has been assigned by then.
C22_ScriptDefinesBeforeUse ==
    (/\ invocation = 1
     /\ pc = "done"
     /\ BaseName(doc[1].key) \in {"MOLE", "CELL"})
    => /\ DefineBeforeUse(out)
       /\ \A k \in 1..Len(hlog) :
             /\ IsStr(hlog[k].ret)
             /\ RootName(hlog[k].ret.s)
                    \in AssignedBy(SubSeq(out, 1, hlog[k].out1))

\* a completed script of three stages: the molecule is assigned, the
\* post-method reads it through the mean-field it names, the results are
\* stored under the name the header assigned, and the gradients stage
\* reads the name the post-method stage handed on
C22_Witness ==
    /\ invocation = 1
    /\ pc = "done"
    /\ Len(doc) = 3
    /\ doc[1].key = "MOLE"
    /\ doc[2].key = "CCSD"
    /\ doc[3].key = "GRADIENTS"
    /\ \E i \in 1..Len(out) :
          out[i].s = "new" /\ out[i].recv = "cell._scf"
    /\ \E i \in 1..Len(out) : out[i].s = "result" /\ out[i].recv = "postscf"
    /\ \E i \in 1..Len(out) :
          out[i].s = "new" /\ out[i].recv = "postscf"
             /\ out[i].target = "GRADIENTS_instance"
    /\ ctx = Str("GRADIENTS_instance")

====
